---- MODULE Spec2Model ----
(***************************************************************************)
(* Inventory & sale transaction engine of the POS backend.                 *)
(*                                                                         *)
(* The product collection and the sale collection are the shared state.    *)
(* Every request handler is an async function: it runs atomically between  *)
(* two awaited database operations, and each awaited operation (findById,  *)
(* findByIdAndUpdate, save) is one atomic step of the store.  A handler is *)
(* therefore modelled as a process whose steps are its database            *)
(* operations, each taken together with the synchronous code around it.    *)
(***************************************************************************)
EXTENDS Integers, Sequences, FiniteSets, TLC

\* ------------------------------------------------------------------ bounds
MaxLines == 2       \* longest item list of a sale request
MaxQty == 2         \* largest quantity of a line of a sale request
InitStock == 3      \* stock of the first variant of p1 when the run starts
TicksPerDay == 4    \* resolution of the clock
MaxTicks == 6       \* how long the clock runs

\* ------------------------------------------------------------- identities
CatalogIds == {"p1", "p2"}             \* products stored when the run starts
MissingId == "p0"                      \* an id no product has
RequestIds == CatalogIds \cup {MissingId}
SaleRequests == {"r1", "r2"}           \* concurrent POST /sales requests
StockRequests == {"u1"}                \* concurrent PUT /products/:id/stock
Prices == {10, 12}                     \* selling prices an update may set

VARIABLES
  products,   \* the product collection: id -> document
  sales,      \* the sale collection, in insertion order
  req,        \* per POST /sales request: the handler's locals and position
  stk,        \* per PUT /products/:id/stock request: locals and position
  hist,       \* history (not program state): what each request did
  arrivals,   \* history: the sale requests in order of arrival, where recorded
  now,        \* the server's clock, in ticks since the epoch (UTC)
  tz,         \* the server's time zone: local time minus UTC, in ticks
  report      \* the response of the last report request

vars == <<products, sales, req, stk, hist, arrivals, now, tz, report>>

\* ------------------------------------------------------------------- Date
\* A Date is an instant: ticks since 00:00 UTC of 1 January of the first
\* calendar year, TicksPerDay ticks to the day.  The last tick of a day stands
\* for 23:59:59.999.  Time zones are fixed offsets (no daylight saving).
CalendarYears == 2022..2026
QueryYears == {2023, 2024}
TimeZones == {-1, 0, 1}

EpochYear == CHOOSE y \in CalendarYears : \A z \in CalendarYears : y <= z

IsLeap(y) == (y % 4 = 0 /\ y % 100 # 0) \/ y % 400 = 0

DaysInYear(y) == IF IsLeap(y) THEN 366 ELSE 365

DaysInMonth(y, m) ==
  IF m \in {4, 6, 9, 11} THEN 30
  ELSE IF m = 2 THEN (IF IsLeap(y) THEN 29 ELSE 28)
  ELSE 31

RECURSIVE DaysBeforeYear(_)
DaysBeforeYear(y) ==
  IF y <= EpochYear THEN 0 ELSE DaysBeforeYear(y - 1) + DaysInYear(y - 1)

RECURSIVE DaysBeforeMonth(_, _)
DaysBeforeMonth(y, m) ==
  IF m <= 1 THEN 0 ELSE DaysBeforeMonth(y, m - 1) + DaysInMonth(y, m - 1)

\* The day number of a calendar date; a day below 1 or past the month's end
\* rolls over, as in the Date constructor.
DayNumber(y, m, d) == DaysBeforeYear(y) + DaysBeforeMonth(y, m) + d - 1

RECURSIVE CivilFromYear(_, _)
CivilFromYear(n, y) ==
  IF n >= DaysInYear(y) THEN CivilFromYear(n - DaysInYear(y), y + 1) ELSE <<y, n>>

RECURSIVE CivilFromMonth(_, _, _)
CivilFromMonth(n, y, m) ==
  IF n >= DaysInMonth(y, m) THEN CivilFromMonth(n - DaysInMonth(y, m), y, m + 1)
  ELSE [y |-> y, m |-> m, d |-> n + 1]

\* The calendar date (the text YYYY-MM-DD) of a day number.
CivilDate(n) ==
  LET yn == CivilFromYear(n, EpochYear) IN CivilFromMonth(yn[2], yn[1], 1)

\* new Date(year, monthIndex, day, ...) : local time; monthIndex 12 is January
\* of the next year.
DateLocal(year, monthIndex, day, tickOfDay) ==
  (IF monthIndex = 12 THEN DayNumber(year + 1, 1, day)
                      ELSE DayNumber(year, monthIndex + 1, day)) * TicksPerDay
    + tickOfDay - tz

\* new Date("YYYY-MM-DD"): a date-only text is midnight UTC.
DateParse(date) == DayNumber(date.y, date.m, date.d) * TicksPerDay

\* date.toISOString().split('T')[0]: the UTC calendar date.
IsoDate(t) == CivilDate(t \div TicksPerDay)

\* date.setHours(0, 0, 0, 0) and date.setHours(23, 59, 59, 999): local time.
StartOfLocalDay(t) == ((t + tz) \div TicksPerDay) * TicksPerDay - tz

EndOfLocalDay(t) == StartOfLocalDay(t) + TicksPerDay - 1

\* The instant at which the run starts: the last tick of 28 February 2024, UTC.
StartInstant == DayNumber(2024, 2, 29) * TicksPerDay - 1

NoReport == [kind |-> "none"]

\* ------------------------------------------------------------- documents
\* p1 was created with two variants; p2 is a product whose variant list is
\* empty (PUT /products/:id with variants: [] stores one).
InitProducts ==
  [id \in CatalogIds |->
     IF id = "p1"
       THEN [name |-> "P1", basePrice |-> 9, purchasedPrice |-> 6, sellingPrice |-> 10,
             variants |-> << [id |-> "v1", purchasedPrice |-> 6, sellingPrice |-> 10,
                              stock |-> InitStock],
                             [id |-> "v2", purchasedPrice |-> 5, sellingPrice |-> 7,
                              stock |-> 1] >>]
       ELSE [name |-> "P2", basePrice |-> 4, purchasedPrice |-> 2, sellingPrice |-> 5,
             variants |-> << >>]]

\* The HTTP outcome of a handler: status and the kind of its message.
Outcome(status, kind, available, requested) ==
  [status |-> status, kind |-> kind, available |-> available, requested |-> requested]

NoOutcome == Outcome(0, "None", 0, 0)

\* ------------------------------------------------- ProductService.updateStock
\* product.variants after the default-variant branch.
NormalizedVariants(product) ==
  IF Len(product.variants) = 0
    THEN << [id |-> "default", purchasedPrice |-> product.purchasedPrice,
             sellingPrice |-> product.sellingPrice, stock |-> 0] >>
    ELSE product.variants

\* A mutation of the arithmetic: the change is applied with the wrong sign.
NewStock_SignFlipped(product, stockChange) ==
  NormalizedVariants(product)[1].stock - stockChange

\* const newStock = defaultVariant.stock + stockChange
NewStock(product, stockChange) ==
  NormalizedVariants(product)[1].stock + stockChange

\* A mutation of the guard: no check at all.
StockGuard_Absent(product, stockChange) == FALSE

\* The guard that throws Error('Insufficient stock').
StockGuard(product, stockChange) ==
  NewStock(product, stockChange) < 0

\* The variants array handed to findByIdAndUpdate.
VariantsToWrite(product, stockChange) ==
  [NormalizedVariants(product) EXCEPT ![1].stock = NewStock(product, stockChange)]

\* productModel.findByIdAndUpdate(id, { variants }): a no-op on a missing id.
findByIdAndUpdate(db, id, variants) ==
  IF id \in DOMAIN db THEN [db EXCEPT ![id].variants = variants] ELSE db

\* ------------------------------------------------ NewSaleController.createSale
\* Item lists a caller may send: length 0..MaxLines, any id, quantity 0..MaxQty.
\* The body is fixed when the request arrives.  The model fixes its length on
\* arrival and draws each line when the validation loop first reads it: a line
\* has no effect before it is read, so the runs are the same.
\* Beside the lines that name a stored product with a positive quantity, one
\* line stands for each way a line can be malformed.
Lines ==
  [productId : CatalogIds, quantity : 1..MaxQty]
    \cup {[productId |-> MissingId, quantity |-> 1], [productId |-> "p1", quantity |-> 0]}

Lengths == 0..MaxLines

\* const defaultVariant = product.variants && product.variants[0]
HasDefaultVariant(product) == Len(product.variants) > 0

\* A mutation of the price rule: always the base price.
LinePrice_Base(product) == product.basePrice

LinePrice(product) ==
  IF HasDefaultVariant(product) THEN product.variants[1].sellingPrice
                                ELSE product.basePrice

LineStock(product) ==
  IF HasDefaultVariant(product) THEN product.variants[1].stock ELSE 0

\* if (stock < item.quantity)
StockShort(stock, quantity) == stock < quantity

\* History: the price the store holds for a product at this moment, the first
\* variant's selling price or, without variants, the base price.
PriceOnRecord(id) ==
  IF products[id].variants = << >> THEN products[id].basePrice
                                   ELSE Head(products[id].variants).sellingPrice

NoHist == [applied |-> << >>, read |-> << >>, failedIn |-> "none"]

InitReq == [pc |-> "idle", n |-> 0, items |-> << >>, i |-> 0, saleItems |-> << >>,
            total |-> 0, wr |-> << >>, result |-> NoOutcome]

Finish(r, items, outcome, phase) ==
  /\ req' = [req EXCEPT ![r].pc = "done", ![r].items = items, ![r].result = outcome]
  /\ hist' = [hist EXCEPT ![r].failedIn = phase]

\* The request arrives; the empty-list check runs before any await.  (Whether
\* the arrival is recorded in arrivals is left to the specification.)
createSale_begin(r, n) ==
  /\ req[r].pc = "idle"
  /\ IF n = 0
       THEN /\ req' = [req EXCEPT ![r].pc = "done",
                                  ![r].result = Outcome(400, "EmptySale", 0, 0)]
            /\ hist' = [hist EXCEPT ![r].failedIn = "validation"]
       ELSE /\ req' = [req EXCEPT ![r].pc = "validate", ![r].n = n, ![r].i = 1]
            /\ UNCHANGED hist
  /\ UNCHANGED <<products, sales, stk, now, tz, report>>

\* A mutation of the validation loop: mutate-as-you-go, the stock of a line is
\* decremented as soon as the line is accepted.
createSale_validate_mutating(r, item) ==
  /\ req[r].pc = "validate"
  /\ LET items == Append(req[r].items, item) IN
     IF item.quantity <= 0
       THEN Finish(r, items, Outcome(400, "InvalidQuantity", 0, 0), "validation")
            /\ UNCHANGED products
     ELSE IF item.productId \notin DOMAIN products
       THEN Finish(r, items, Outcome(404, "ProductNotFound", 0, 0), "validation")
            /\ UNCHANGED products
     ELSE LET product == products[item.productId] IN
       IF StockShort(LineStock(product), item.quantity)
         THEN Finish(r, items, Outcome(400, "InsufficientStock", LineStock(product),
                                      item.quantity), "validation")
              /\ UNCHANGED products
         ELSE /\ req' = [req EXCEPT
                    ![r].items = items,
                    ![r].saleItems = Append(@, [productId |-> item.productId,
                                                quantity |-> item.quantity,
                                                price |-> LinePrice(product)]),
                    ![r].total = @ + LinePrice(product) * item.quantity,
                    ![r].pc = IF req[r].i = req[r].n THEN "save" ELSE "validate",
                    ![r].i = IF req[r].i = req[r].n THEN 1 ELSE @ + 1]
              /\ hist' = [hist EXCEPT ![r].read = Append(@, PriceOnRecord(item.productId)),
                                      ![r].applied = Append(@, req[r].i)]
              /\ products' = findByIdAndUpdate(products, item.productId,
                                               VariantsToWrite(product, -item.quantity))
  /\ UNCHANGED <<sales, stk, arrivals, now, tz, report>>

\* One pass of the validation loop: the quantity check, the awaited findById
\* and the synchronous code up to the next await.
createSale_validate(r, item) ==
  /\ req[r].pc = "validate"
  /\ LET items == Append(req[r].items, item) IN
     IF item.quantity <= 0
       THEN Finish(r, items, Outcome(400, "InvalidQuantity", 0, 0), "validation")
     ELSE IF item.productId \notin DOMAIN products
       THEN Finish(r, items, Outcome(404, "ProductNotFound", 0, 0), "validation")
     ELSE LET product == products[item.productId] IN
       IF StockShort(LineStock(product), item.quantity)
         THEN Finish(r, items, Outcome(400, "InsufficientStock", LineStock(product),
                                      item.quantity), "validation")
         ELSE /\ req' = [req EXCEPT
                    ![r].items = items,
                    ![r].saleItems = Append(@, [productId |-> item.productId,
                                                quantity |-> item.quantity,
                                                price |-> LinePrice(product)]),
                    ![r].total = @ + LinePrice(product) * item.quantity,
                    ![r].pc = IF req[r].i = req[r].n THEN "reserve" ELSE "validate",
                    ![r].i = IF req[r].i = req[r].n THEN 1 ELSE @ + 1]
              /\ hist' = [hist EXCEPT ![r].read = Append(@, PriceOnRecord(item.productId))]
  /\ UNCHANGED <<products, sales, stk, arrivals, now, tz, report>>

\* One pass of the stock loop, first half: updateStock's awaited findById and
\* the synchronous code after it.  updateStock returns null for a missing
\* product (the loop goes on) and throws a plain Error when the new stock
\* would be negative; createSale's catch turns that Error into a 500.
createSale_reserve_read(r) ==
  /\ req[r].pc = "reserve"
  /\ LET item == req[r].items[req[r].i] IN
     IF item.productId \notin DOMAIN products
       THEN /\ req' = [req EXCEPT
                  ![r].pc = IF req[r].i = req[r].n THEN "save" ELSE "reserve",
                  ![r].i = IF req[r].i = req[r].n THEN @ ELSE @ + 1]
            /\ UNCHANGED hist
     ELSE IF StockGuard(products[item.productId], -item.quantity)
       THEN Finish(r, req[r].items, Outcome(500, "FailedToCreateSale", 0, 0), "commit")
       ELSE /\ req' = [req EXCEPT
                  ![r].pc = "reserveWrite",
                  ![r].wr = VariantsToWrite(products[item.productId], -item.quantity)]
            /\ UNCHANGED hist
  /\ UNCHANGED <<products, sales, stk, arrivals, now, tz, report>>

\* Second half: updateStock's awaited findByIdAndUpdate.
createSale_reserve_write(r) ==
  /\ req[r].pc = "reserveWrite"
  /\ products' = findByIdAndUpdate(products, req[r].items[req[r].i].productId, req[r].wr)
  /\ req' = [req EXCEPT
        ![r].pc = IF req[r].i = req[r].n THEN "save" ELSE "reserve",
        ![r].i = IF req[r].i = req[r].n THEN @ ELSE @ + 1,
        ![r].wr = << >>]
  /\ hist' = [hist EXCEPT ![r].applied = Append(@, req[r].i)]
  /\ UNCHANGED <<sales, stk, arrivals, now, tz, report>>

\* A mutation of the save: every stored Sale is stamped again.
createSale_save_restamping(r) ==
  /\ req[r].pc = "save"
  /\ sales' = Append([k \in 1..Len(sales) |-> [sales[k] EXCEPT !.createdAt = now]],
                     [items |-> req[r].saleItems, total |-> req[r].total,
                      customerName |-> r, createdAt |-> now])
  /\ req' = [req EXCEPT ![r].pc = "done", ![r].result = Outcome(201, "Created", 0, 0)]
  /\ UNCHANGED <<products, stk, hist, arrivals, now, tz, report>>

\* saleService.create({ items: saleItems, total, customerName }); the schema's
\* timestamps option stamps createdAt.
createSale_save(r) ==
  /\ req[r].pc = "save"
  /\ sales' = Append(sales, [items |-> req[r].saleItems, total |-> req[r].total,
                            customerName |-> r, createdAt |-> now])
  /\ req' = [req EXCEPT ![r].pc = "done", ![r].result = Outcome(201, "Created", 0, 0)]
  /\ UNCHANGED <<products, stk, hist, arrivals, now, tz, report>>

\* ------------------------------------------------------------ SaleService.create
\* Item lists of Sales as createSale builds them: the products exist, the
\* prices are selling prices the catalog has held, quantities are positive.
SaleItemLists ==
  {<< [productId |-> "p1", quantity |-> 1, price |-> 10] >>,
   << [productId |-> "p2", quantity |-> 2, price |-> 5] >>,
   << [productId |-> "p2", quantity |-> 1, price |-> 5],
      [productId |-> "p1", quantity |-> 2, price |-> 12] >>}

\* total += price * item.quantity, over the lines.
RECURSIVE TotalOf(_)
TotalOf(items) ==
  IF items = << >> THEN 0
  ELSE Head(items).price * Head(items).quantity + TotalOf(Tail(items))

\* new this.saleModel(createSaleDto).save(), called by createSale once its
\* lines are validated; customer r buys once.
saleService_create(r, items) ==
  /\ \A k \in 1..Len(sales) : sales[k].customerName # r
  /\ \A k \in 1..Len(items) : items[k].productId \in DOMAIN products
  /\ sales' = Append(sales, [items |-> items, total |-> TotalOf(items),
                            customerName |-> r, createdAt |-> now])
  /\ UNCHANGED <<products, req, stk, hist, arrivals, now, tz, report>>

\* ------------------------------------------------ ProductController.updateStock
StockChanges == {-1, 1}

InitStk == [pc |-> "idle", id |-> MissingId, stockChange |-> 0, wr |-> << >>,
            result |-> NoOutcome]

\* The request arrives: updateStock's awaited findById and the synchronous code
\* after it.  null becomes 404, Error('Insufficient stock') becomes 400.
updateStock_read(u, id, stockChange) ==
  /\ stk[u].pc = "idle"
  /\ IF id \notin DOMAIN products
       THEN stk' = [stk EXCEPT ![u].pc = "done", ![u].id = id,
                               ![u].stockChange = stockChange,
                               ![u].result = Outcome(404, "ProductNotFound", 0, 0)]
     ELSE IF StockGuard(products[id], stockChange)
       THEN stk' = [stk EXCEPT ![u].pc = "done", ![u].id = id,
                               ![u].stockChange = stockChange,
                               ![u].result = Outcome(400, "InsufficientStock", 0, 0)]
       ELSE stk' = [stk EXCEPT ![u].pc = "write", ![u].id = id,
                               ![u].stockChange = stockChange,
                               ![u].wr = VariantsToWrite(products[id], stockChange)]
  /\ UNCHANGED <<products, sales, req, hist, arrivals, now, tz, report>>

\* updateStock's awaited findByIdAndUpdate; the updated document is returned.
updateStock_write(u) ==
  /\ stk[u].pc = "write"
  /\ products' = findByIdAndUpdate(products, stk[u].id, stk[u].wr)
  /\ stk' = [stk EXCEPT ![u].pc = "done", ![u].wr = << >>,
                        ![u].result = Outcome(200, "Updated", 0, 0)]
  /\ UNCHANGED <<sales, req, hist, arrivals, now, tz, report>>

\* ----------------------------------------------- ProductController.updateProduct
\* PUT /products/:id with a variants array that reprices the first variant and
\* repeats the stored stocks: one findByIdAndUpdate.
updateProduct(id, price) ==
  /\ id \in DOMAIN products
  /\ HasDefaultVariant(products[id])
  /\ products[id].variants[1].sellingPrice # price
  /\ products' = [products EXCEPT ![id].variants[1].sellingPrice = price]
  /\ UNCHANGED <<sales, req, stk, hist, arrivals, now, tz, report>>

\* ----------------------------------------------- ProductController.deleteProduct
\* productModel.findByIdAndDelete(id); sales that name the product are left
\* alone.  (An unknown id is a 404 and changes nothing.)
deleteProduct(id) ==
  /\ id \in DOMAIN products
  /\ products' = [x \in DOMAIN products \ {id} |-> products[x]]
  /\ UNCHANGED <<sales, req, stk, hist, arrivals, now, tz, report>>

\* ------------------------------------------------------------------- clock
\* Time passes.
Tick ==
  /\ now < StartInstant + MaxTicks
  /\ now' = now + 1
  /\ UNCHANGED <<products, sales, req, stk, hist, arrivals, tz, report>>

\* ----------------------------------------------------------- SalesReportService
\* sales.reduce((sum, sale) => sum + sale.total, 0)
RECURSIVE TotalRevenue(_)
TotalRevenue(ss) ==
  IF ss = << >> THEN 0 ELSE Head(ss).total + TotalRevenue(Tail(ss))

\* n > 0 ? totalRevenue / n : 0, as an exact fraction.
AverageOrderValue(totalRevenue, n) ==
  IF n > 0 THEN [num |-> totalRevenue, den |-> n] ELSE [num |-> 0, den |-> 1]

\* GET /reports/overview: both collections are read, nothing is written.
getSalesOverview ==
  /\ report' = [kind |-> "overview",
                totalSales |-> Len(sales),
                totalRevenue |-> TotalRevenue(sales),
                averageOrderValue |-> AverageOrderValue(TotalRevenue(sales), Len(sales)),
                totalProducts |-> Cardinality(DOMAIN products)]
  /\ UNCHANGED <<products, sales, req, stk, hist, arrivals, now, tz>>

\* saleModel.find({ createdAt: { $gte: startDate, $lte: endDate } }), in the
\* order of insertion.
FindByCreatedAt(ss, startDate, endDate) ==
  SelectSeq(ss, LAMBDA sale : startDate <= sale.createdAt /\ sale.createdAt <= endDate)

\* populate('items.productId'): the reference becomes the product document, or
\* null when the product is gone.
Null == [_id |-> "null", name |-> "null"]

Populated(sale) ==
  [sale EXCEPT !.items =
     [k \in 1..Len(sale.items) |->
        [sale.items[k] EXCEPT !.productId =
           IF @ \in DOMAIN products THEN [_id |-> @, name |-> products[@].name]
                                    ELSE Null]]]

PopulatedAll(ss) == [k \in 1..Len(ss) |-> Populated(ss[k])]

\* A Map, in insertion order: set() on a present key keeps its place.
MapHas(map, key) == \E k \in 1..Len(map) : map[k].key = key

MapGet(map, key) == map[CHOOSE k \in 1..Len(map) : map[k].key = key].value

MapSet(map, key, value) ==
  IF MapHas(map, key)
    THEN [k \in 1..Len(map) |-> IF map[k].key = key THEN [key |-> key, value |-> value]
                                                   ELSE map[k]]
    ELSE Append(map, [key |-> key, value |-> value])

\* Dates a daily report is asked for, months and years of a monthly report.
QueryDates ==
  {[y |-> 2024, m |-> 2, d |-> 28], [y |-> 2024, m |-> 2, d |-> 29],
   [y |-> 2024, m |-> 3, d |-> 1]}

QueryMonths == {2, 3}

\* The window of getDailySalesReport and getSalesByDateRange.
DayStart(date) == StartOfLocalDay(DateParse(date))

DayEnd(date) == EndOfLocalDay(DateParse(date))

DailySalesReport(ss, date) ==
  LET found == FindByCreatedAt(ss, DayStart(date), DayEnd(date)) IN
  [kind |-> "daily",
   date |-> date,
   totalSales |-> Len(found),
   totalRevenue |-> TotalRevenue(found),
   averageOrderValue |-> AverageOrderValue(TotalRevenue(found), Len(found)),
   sales |-> PopulatedAll(found)]

\* GET /reports/daily?date=
getDailySalesReport(date) ==
  /\ report' = DailySalesReport(sales, date)
  /\ UNCHANGED <<products, sales, req, stk, hist, arrivals, now, tz>>

\* The window of getMonthlySalesReport.
MonthStart(month, year) == DateLocal(year, month - 1, 1, 0)

MonthEnd(month, year) == DateLocal(year, month, 0, TicksPerDay - 1)

\* The while loop: one key per local day from startDate up to endDate, named
\* by its UTC date.  The steps are a day apart, so the keys differ and every
\* set() adds an entry at the end.
MonthKeys(startDate, endDate) ==
  [k \in 1..((endDate - startDate) \div TicksPerDay + 1) |->
     [key |-> IsoDate(startDate + (k - 1) * TicksPerDay),
      value |-> [sales |-> 0, revenue |-> 0]]]

\* A mutation of the forEach: a sale whose date has no bucket is dropped.
Bucket_Dropping(map, sale) ==
  LET dateStr == IsoDate(sale.createdAt) IN
  IF MapHas(map, dateStr)
    THEN MapSet(map, dateStr, [sales |-> MapGet(map, dateStr).sales + 1,
                               revenue |-> MapGet(map, dateStr).revenue + sale.total])
    ELSE map

\* One pass of the forEach.
Bucket(map, sale) ==
  LET dateStr == IsoDate(sale.createdAt)
      stats == IF MapHas(map, dateStr) THEN MapGet(map, dateStr)
                                       ELSE [sales |-> 0, revenue |-> 0]
  IN MapSet(map, dateStr, [sales |-> stats.sales + 1,
                           revenue |-> stats.revenue + sale.total])

RECURSIVE BucketAll(_, _)
BucketAll(map, ss) ==
  IF ss = << >> THEN map ELSE BucketAll(Bucket(map, Head(ss)), Tail(ss))

MonthlySalesReport(ss, month, year) ==
  LET found == FindByCreatedAt(ss, MonthStart(month, year), MonthEnd(month, year))
      dailyStats == BucketAll(MonthKeys(MonthStart(month, year), MonthEnd(month, year)),
                              found)
  IN
  [kind |-> "monthly",
   month |-> month,
   year |-> year,
   totalSales |-> Len(found),
   totalRevenue |-> TotalRevenue(found),
   averageOrderValue |-> AverageOrderValue(TotalRevenue(found), Len(found)),
   dailyStats |-> [k \in 1..Len(dailyStats) |->
                     [date |-> dailyStats[k].key,
                      sales |-> dailyStats[k].value.sales,
                      revenue |-> dailyStats[k].value.revenue]]]

\* GET /reports/monthly?month=&year=
getMonthlySalesReport(month, year) ==
  /\ report' = MonthlySalesReport(sales, month, year)
  /\ UNCHANGED <<products, sales, req, stk, hist, arrivals, now, tz>>

\* One pass of the inner forEach of getProductSalesReport.
FoldItem(map, item) ==
  LET product == item.productId IN
  IF product = Null THEN map
  ELSE LET productId == product._id
           stats == IF MapHas(map, productId) THEN MapGet(map, productId)
                    ELSE [productId |-> productId, name |-> product.name,
                          totalQuantitySold |-> 0, totalRevenue |-> 0,
                          averagePrice |-> [num |-> 0, den |-> 1]]
           quantity == stats.totalQuantitySold + item.quantity
           revenue == stats.totalRevenue + item.price * item.quantity
       IN MapSet(map, productId,
                 [stats EXCEPT !.totalQuantitySold = quantity,
                               !.totalRevenue = revenue,
                               !.averagePrice = [num |-> revenue, den |-> quantity]])

RECURSIVE FoldItems(_, _)
FoldItems(map, items) ==
  IF items = << >> THEN map ELSE FoldItems(FoldItem(map, Head(items)), Tail(items))

RECURSIVE FoldSales(_, _)
FoldSales(map, ss) ==
  IF ss = << >> THEN map ELSE FoldSales(FoldItems(map, Head(ss).items), Tail(ss))

\* A mutation of the sort: an entry is placed before the entries it ties with.
SortInsert_Unstable(sorted, x) ==
  LET pos == Cardinality({k \in 1..Len(sorted) : sorted[k].totalRevenue > x.totalRevenue})
  IN SubSeq(sorted, 1, pos) \o <<x>> \o SubSeq(sorted, pos + 1, Len(sorted))

\* sort((a, b) => b.totalRevenue - a.totalRevenue): Array.prototype.sort is
\* stable, an entry goes after the entries that compare as not greater.
SortInsert(sorted, x) ==
  LET pos == Cardinality({k \in 1..Len(sorted) : sorted[k].totalRevenue >= x.totalRevenue})
  IN SubSeq(sorted, 1, pos) \o <<x>> \o SubSeq(sorted, pos + 1, Len(sorted))

RECURSIVE SortByRevenue(_, _)
SortByRevenue(sorted, list) ==
  IF list = << >> THEN sorted
  ELSE SortByRevenue(SortInsert(sorted, Head(list)), Tail(list))

\* Array.from(productStats.values())
MapValues(map) == [k \in 1..Len(map) |-> map[k].value]

ProductSalesReport(ss) ==
  SortByRevenue(<< >>, MapValues(FoldSales(<< >>, PopulatedAll(ss))))

\* GET /reports/products
getProductSalesReport ==
  /\ report' = [kind |-> "products", list |-> ProductSalesReport(sales)]
  /\ UNCHANGED <<products, sales, req, stk, hist, arrivals, now, tz>>

\* ------------------------------------------------ SalesReportService.getSalesByDateRange
\* sort({ createdAt: -1 }): newest first.  The order of Sales with the same
\* createdAt is the store's choice: the order of insertion or its reverse.
TieBreaks == {"insertion", "reverse"}

SortInsertByCreatedAt(sorted, x, tieBreak) ==
  LET pos == Cardinality({k \in 1..Len(sorted) :
                            \/ sorted[k].createdAt > x.createdAt
                            \/ sorted[k].createdAt = x.createdAt /\ tieBreak = "insertion"})
  IN SubSeq(sorted, 1, pos) \o <<x>> \o SubSeq(sorted, pos + 1, Len(sorted))

RECURSIVE SortByCreatedAt(_, _, _)
SortByCreatedAt(sorted, list, tieBreak) ==
  IF list = << >> THEN sorted
  ELSE SortByCreatedAt(SortInsertByCreatedAt(sorted, Head(list), tieBreak),
                       Tail(list), tieBreak)

SalesByDateRange(ss, startDate, endDate, tieBreak) ==
  SortByCreatedAt(<< >>, PopulatedAll(FindByCreatedAt(ss, DayStart(startDate),
                                                      DayEnd(endDate))), tieBreak)

\* ---------------------------------------------- SalesReportController.getAnalytics
TopLimit == 5
RecentLimit == 10
RecentDays == 30

\* array.slice(0, n) and array.slice(-n)
SliceFirst(list, n) == SubSeq(list, 1, IF Len(list) < n THEN Len(list) ELSE n)

SliceLast(list, n) == SubSeq(list, IF Len(list) < n THEN 1 ELSE Len(list) - n + 1, Len(list))

\* today.getMonth() + 1 and today.getFullYear(): local time.
CurrentMonth(today) == CivilDate((today + tz) \div TicksPerDay).m

CurrentYear(today) == CivilDate((today + tz) \div TicksPerDay).y

\* Math.round(growthPercentage * 100) / 100, in hundredths of a percent.
GrowthPercentage(thisRevenue, lastRevenue) ==
  IF lastRevenue > 0
    THEN ((thisRevenue - lastRevenue) * 20000 + lastRevenue) \div (2 * lastRevenue)
    ELSE 0

\* The handler up to its second await: today is read and the two monthly
\* reports and the product report are awaited together.
getAnalytics_begin ==
  /\ report = NoReport
  /\ LET today == now
         currentMonth == CurrentMonth(today)
         currentYear == CurrentYear(today)
         lastMonth == IF currentMonth = 1 THEN 12 ELSE currentMonth - 1
         lastMonthYear == IF currentMonth = 1 THEN currentYear - 1 ELSE currentYear
         thisRevenue == MonthlySalesReport(sales, currentMonth, currentYear).totalRevenue
         lastRevenue == MonthlySalesReport(sales, lastMonth, lastMonthYear).totalRevenue
     IN report' = [kind |-> "analyticsPending",
                   today |-> today,
                   totalSalesThisMonth |-> thisRevenue,
                   totalSalesLastMonth |-> lastRevenue,
                   growthPercentage |-> GrowthPercentage(thisRevenue, lastRevenue),
                   topSellingProducts |-> SliceFirst(ProductSalesReport(sales), TopLimit)]
  /\ UNCHANGED <<products, sales, req, stk, hist, arrivals, now, tz>>

\* The rest of the handler: the Sales of the last RecentDays days are read and
\* the response is built.  (today stays in the record as the handler's local.)
getAnalytics_recent(tieBreak) ==
  /\ report.kind = "analyticsPending"
  /\ LET endDate == IsoDate(report.today)
         startDate == IsoDate(report.today - RecentDays * TicksPerDay)
         recentSales == SalesByDateRange(sales, startDate, endDate, tieBreak)
     IN report' = [report EXCEPT !.kind = "analytics"]
                    @@ [recentSales |-> SliceLast(recentSales, RecentLimit)]
  /\ UNCHANGED <<products, sales, req, stk, hist, arrivals, now, tz>>

\* The controller returns the report: the response leaves the server.
sendResponse ==
  /\ report.kind \notin {"none", "analyticsPending"}
  /\ report' = NoReport
  /\ UNCHANGED <<products, sales, req, stk, hist, arrivals, now, tz>>

\* ------------------------------------------------------------ specification
Init ==
  /\ products = InitProducts
  /\ sales = << >>
  /\ req = [r \in SaleRequests |-> InitReq]
  /\ stk = [u \in StockRequests |-> InitStk]
  /\ hist = [r \in SaleRequests |-> NoHist]
  /\ arrivals = << >>
  /\ now = StartInstant
  /\ tz = 0
  /\ report = NoReport

Next ==
  \/ \E r \in SaleRequests, n \in Lengths :
       createSale_begin(r, n) /\ UNCHANGED arrivals
  \/ \E r \in SaleRequests, item \in Lines : createSale_validate(r, item)
  \/ \E r \in SaleRequests : createSale_reserve_read(r)
  \/ \E r \in SaleRequests : createSale_reserve_write(r)
  \/ \E r \in SaleRequests : createSale_save(r)
  \/ \E u \in StockRequests, id \in RequestIds, c \in StockChanges : updateStock_read(u, id, c)
  \/ \E u \in StockRequests : updateStock_write(u)

Spec == Init /\ [][Next]_vars

NoneRunning == \A x \in SaleRequests : req[x].pc \in {"idle", "done"}

\* Price changes at any moment of sale requests that arrive one after the
\* other.
CatalogNext ==
  \/ \E r \in SaleRequests, n \in Lengths :
       NoneRunning /\ createSale_begin(r, n) /\ UNCHANGED arrivals
  \/ \E r \in SaleRequests, item \in Lines : createSale_validate(r, item)
  \/ \E r \in SaleRequests : createSale_reserve_read(r)
  \/ \E r \in SaleRequests : createSale_reserve_write(r)
  \/ \E r \in SaleRequests : createSale_save(r)
  \/ \E id \in CatalogIds, price \in Prices : updateProduct(id, price)

SpecCatalog == Init /\ [][CatalogNext]_vars

\* Sequential execution: a sale request arrives only when no other is running.
SeqNext ==
  \/ \E r \in SaleRequests, n \in Lengths :
       NoneRunning /\ createSale_begin(r, n) /\ arrivals' = Append(arrivals, r)
  \/ \E r \in SaleRequests, item \in Lines : createSale_validate(r, item)
  \/ \E r \in SaleRequests : createSale_reserve_read(r)
  \/ \E r \in SaleRequests : createSale_reserve_write(r)
  \/ \E r \in SaleRequests : createSale_save(r)

SpecSeq == Init /\ [][SeqNext]_vars

\* ------------------------------------------------------ notions of the claims
\* The stock a sale or a stock request works on: the first variant's.
Stock(id) ==
  IF products[id].variants = << >> THEN 0 ELSE Head(products[id].variants).stock

InitialStock(id) ==
  IF InitProducts[id].variants = << >> THEN 0 ELSE Head(InitProducts[id].variants).stock

InitialPrice(id) ==
  IF InitProducts[id].variants = << >> THEN InitProducts[id].basePrice
                                       ELSE Head(InitProducts[id].variants).sellingPrice

RECURSIVE SumLines(_)
SumLines(items) ==
  IF items = << >> THEN 0
  ELSE Head(items).price * Head(items).quantity + SumLines(Tail(items))

RECURSIVE Quantity(_, _)
Quantity(items, id) ==
  IF items = << >> THEN 0
  ELSE (IF Head(items).productId = id THEN Head(items).quantity ELSE 0)
         + Quantity(Tail(items), id)

RECURSIVE Sold(_, _)
Sold(ss, id) ==
  IF ss = << >> THEN 0 ELSE Quantity(Head(ss).items, id) + Sold(Tail(ss), id)

SalesBy(r) == Cardinality({k \in 1..Len(sales) : sales[k].customerName = r})

\* The net change of the stock requests that were applied.
RECURSIVE NetOf(_, _)
NetOf(us, id) ==
  IF us = {} THEN 0
  ELSE LET u == CHOOSE x \in us : TRUE IN
       (IF stk[u].result.kind = "Updated" /\ stk[u].id = id THEN stk[u].stockChange ELSE 0)
         + NetOf(us \ {u}, id)

Quiescent ==
  /\ \A r \in SaleRequests : req[r].pc \in {"idle", "done"}
  /\ \A u \in StockRequests : stk[u].pc \in {"idle", "done"}

\* Request r is the only request that has arrived.
Alone(r) ==
  /\ \A x \in SaleRequests \ {r} : req[x].pc = "idle"
  /\ \A u \in StockRequests : stk[u].pc = "idle"

\* ------------------------------------------------- store-wide specification
\* Everything that touches the store, with time passing: sale requests that
\* arrive one after the other with one line each (their stock loop is
\* ProductService.updateStock), price changes, deletions and the overview
\* report.  The clock is read between requests, and a report is answered
\* before the next step is taken.
StoreNext ==
  \/ /\ report = NoReport
     /\ \/ \E r \in SaleRequests :
             NoneRunning /\ createSale_begin(r, 1) /\ UNCHANGED arrivals
        \/ \E r \in SaleRequests, item \in Lines : createSale_validate(r, item)
        \/ \E r \in SaleRequests : createSale_reserve_read(r)
        \/ \E r \in SaleRequests : createSale_reserve_write(r)
        \/ \E r \in SaleRequests : createSale_save(r)
        \/ \E id \in CatalogIds, price \in Prices : updateProduct(id, price)
        \/ \E id \in CatalogIds : deleteProduct(id)
        \/ NoneRunning /\ Tick
        \/ getSalesOverview
  \/ sendResponse

SpecStore == Init /\ [][StoreNext]_vars

\* ------------------------------------------------------ report specification
\* The daily and monthly reports over a store filled by SaleService.create
\* while time passes.  The server's time zone is chosen when it starts.
InitReports ==
  /\ products = InitProducts
  /\ sales = << >>
  /\ req = [r \in SaleRequests |-> InitReq]
  /\ stk = [u \in StockRequests |-> InitStk]
  /\ hist = [r \in SaleRequests |-> NoHist]
  /\ arrivals = << >>
  /\ now = StartInstant
  /\ tz \in TimeZones
  /\ report = NoReport

ReportsNext ==
  \/ /\ report = NoReport
     /\ \/ \E r \in SaleRequests, items \in SaleItemLists : saleService_create(r, items)
        \/ Tick
        \/ \E date \in QueryDates : getDailySalesReport(date)
        \/ \E month \in QueryMonths, year \in QueryYears :
             getMonthlySalesReport(month, year)
  \/ sendResponse

SpecReports == InitReports /\ [][ReportsNext]_vars

\* The product report over a store filled by SaleService.create while products
\* are repriced and deleted.
ProductsNext ==
  \/ /\ report = NoReport
     /\ \/ \E r \in SaleRequests, items \in SaleItemLists : saleService_create(r, items)
        \/ \E id \in CatalogIds, price \in Prices : updateProduct(id, price)
        \/ \E id \in CatalogIds : deleteProduct(id)
        \/ getProductSalesReport
  \/ sendResponse

SpecProducts == Init /\ [][ProductsNext]_vars

\* The analytics over a store that already holds an old Sale and
\* RecentLimit - 1 Sales of the last days, while further Sales arrive and time
\* passes, also between the two reads of the handler.
PastSales ==
  [k \in 1..RecentLimit |->
     [items |-> << [productId |-> "p1", quantity |-> 1, price |-> 10] >>,
      total |-> 10,
      customerName |-> "walk-in",
      createdAt |-> IF k = 1 THEN StartInstant - (RecentDays + RecentLimit) * TicksPerDay
                             ELSE StartInstant - (RecentLimit + 1 - k)]]

InitAnalytics ==
  /\ products = InitProducts
  /\ sales = PastSales
  /\ req = [r \in SaleRequests |-> InitReq]
  /\ stk = [u \in StockRequests |-> InitStk]
  /\ hist = [r \in SaleRequests |-> NoHist]
  /\ arrivals = << >>
  /\ now = StartInstant
  /\ tz = 0
  /\ report = NoReport

AnalyticsNext ==
  \/ /\ report.kind \in {"none", "analyticsPending"}
     /\ \/ \E r \in SaleRequests, items \in SaleItemLists : saleService_create(r, items)
        \/ Tick
  \/ getAnalytics_begin
  \/ \E tieBreak \in TieBreaks : getAnalytics_recent(tieBreak)
  \/ sendResponse

SpecAnalytics == InitAnalytics /\ [][AnalyticsNext]_vars

\* -------------------------------------------------------------------- claims

\* C1: in every reachable state the stock of every variant of every stored
\* product is an integer >= 0, whatever the interleaving of sale requests and
\* stock requests.
C1_StockNeverNegative ==
  \A id \in DOMAIN products :
    \A k \in 1..Len(products[id].variants) : products[id].variants[k].stock \in Nat

\* A sale request was refused by updateStock's guard in its stock loop, a stock
\* request was applied, and the stock of p1 is used up.
C1_Witness ==
  /\ \E r \in SaleRequests : req[r].result.kind = "FailedToCreateSale"
  /\ \E u \in StockRequests : stk[u].result.kind = "Updated"
  /\ Stock("p1") = 0

\* C2: a finished sale request has either applied the decrement of every line
\* and persisted exactly one Sale, or has no decrement left applied and
\* persisted no Sale.  (The code never releases a decrement, so a decrement
\* once applied stays applied.)
C2_AllOrNothing ==
  \A r \in SaleRequests :
    req[r].pc = "done" =>
      \/ Len(hist[r].applied) = req[r].n /\ SalesBy(r) = 1
      \/ hist[r].applied = << >> /\ SalesBy(r) = 0

\* C3: two sale requests of one line each for the same product, each quantity
\* within the stock s and both together above it, and no other request: when
\* both have finished, exactly one has persisted a Sale, the other was
\* rejected, and the stock is s minus the winner's quantity.  (Which outcome
\* the rejection carries is C9's subject: any error outcome counts here.)
C3_Contenders(a, b, id) ==
  /\ a # b
  /\ req[a].pc = "done" /\ req[b].pc = "done"
  /\ req[a].n = 1 /\ req[b].n = 1
  /\ req[a].items[1].productId = id /\ req[b].items[1].productId = id
  /\ req[a].items[1].quantity \in 1..InitialStock(id)
  /\ req[b].items[1].quantity \in 1..InitialStock(id)
  /\ req[a].items[1].quantity + req[b].items[1].quantity > InitialStock(id)
  /\ \A u \in StockRequests : stk[u].pc = "idle"

C3_ExactlyOneSucceeds ==
  \A a, b \in SaleRequests, id \in CatalogIds :
    C3_Contenders(a, b, id) =>
      \E w \in {a, b} :
        LET l == CHOOSE x \in {a, b} : x # w IN
        /\ req[w].result.kind = "Created"
        /\ req[l].result.status >= 400
        /\ Len(sales) = 1 /\ sales[1].customerName = w
        /\ Stock(id) = InitialStock(id) - req[w].items[1].quantity

\* C4: when no request is running, the stock of every product is its initial
\* stock minus the quantities of all lines of persisted Sales for it plus the
\* net change of the applied stock requests.
C4_StockConservation ==
  Quiescent =>
    \A id \in CatalogIds :
      Stock(id) = InitialStock(id) - Sold(sales, id) + NetOf(StockRequests, id)

\* C5: a sale request, run alone on the initial catalog, whose lines for some
\* product add up to more than that product's stock is rejected, leaves every
\* stock as it was and creates no Sale.
C5_AggregateOverdraw ==
  \A r \in SaleRequests :
    ( /\ req[r].pc = "done"
      /\ Alone(r)
      /\ \E id \in CatalogIds : Quantity(req[r].items, id) > InitialStock(id) )
    => /\ req[r].result.status >= 400
       /\ products = InitProducts
       /\ sales = << >>

\* C6: the total of every persisted Sale is the sum of price * quantity over its
\* stored lines, and the price of each line is the price the store held for
\* the line's product when the request's validation read it (first variant's
\* selling price, or the base price without variants).
C6_TotalIsSumOfLines ==
  \A k \in 1..Len(sales) :
    LET sale == sales[k]
        r == sale.customerName IN
    /\ sale.total = SumLines(sale.items)
    /\ Len(sale.items) = req[r].n
    /\ \A j \in 1..Len(sale.items) :
         /\ sale.items[j].price = hist[r].read[j]
         /\ sale.items[j].productId = req[r].items[j].productId
         /\ sale.items[j].quantity = req[r].items[j].quantity

\* A Sale of two lines for the same product whose prices differ: the price
\* changed between the two reads of the validation loop.
C6_Witness ==
  \E k \in 1..Len(sales) :
    /\ Len(sales[k].items) = 2
    /\ sales[k].items[1].productId = sales[k].items[2].productId
    /\ sales[k].items[1].price # sales[k].items[2].price

\* C7: a sale request rejected during validation (quantity <= 0, unknown
\* product, quantity above the stock read) has written no stock and persisted
\* no Sale; run alone, it leaves the catalog and the sale store as they were.
C7_ValidationRejectsCleanly ==
  \A r \in SaleRequests :
    ( /\ req[r].pc = "done"
      /\ hist[r].failedIn = "validation"
      /\ req[r].result.kind \in {"InvalidQuantity", "ProductNotFound", "InsufficientStock"} )
    => /\ hist[r].applied = << >>
       /\ SalesBy(r) = 0
       /\ Alone(r) => (products = InitProducts /\ sales = << >>)

\* A request run alone and rejected for stock at its last line, after valid
\* lines.
C7_Witness ==
  \E r \in SaleRequests :
    /\ req[r].pc = "done" /\ Alone(r)
    /\ req[r].result.kind = "InsufficientStock"
    /\ req[r].n = MaxLines /\ Len(req[r].items) = MaxLines

\* C8: in sequential execution from the initial catalog, the first request,
\* one line of quantity q <= s for a product with stock s and price p, succeeds,
\* persists a Sale of total p * q and leaves stock s - q; a second request of
\* one line of quantity q2 > s - q for the same product is rejected with
\* InsufficientStock{available: s - q, requested: q2} and leaves stock s - q.
C8_First(a, id) ==
  /\ arrivals # << >> /\ arrivals[1] = a /\ req[a].pc = "done" /\ req[a].n = 1
  /\ req[a].items[1].productId = id
  /\ req[a].items[1].quantity \in 1..InitialStock(id)

C8_Second(b, a, id) ==
  /\ arrivals = <<a, b>> /\ req[b].pc = "done" /\ req[b].n = 1
  /\ req[b].items[1].productId = id
  /\ req[b].items[1].quantity > InitialStock(id) - req[a].items[1].quantity

C8_SequentialExample ==
  \A a \in SaleRequests, id \in CatalogIds :
    C8_First(a, id) =>
      LET q == req[a].items[1].quantity IN
      /\ req[a].result = Outcome(201, "Created", 0, 0)
      /\ Len(sales) >= 1
      /\ sales[1] = [items |-> << [productId |-> id, quantity |-> q,
                                  price |-> InitialPrice(id)] >>,
                     total |-> InitialPrice(id) * q, customerName |-> a,
                     createdAt |-> now]
      /\ \A b \in SaleRequests \ {a} :
           /\ req[b].pc = "idle" => Stock(id) = InitialStock(id) - q
           /\ C8_Second(b, a, id) =>
                /\ req[b].result = Outcome(400, "InsufficientStock", InitialStock(id) - q,
                                           req[b].items[1].quantity)
                /\ Stock(id) = InitialStock(id) - q
                /\ Len(sales) = 1

C8_Witness ==
  \E a, b \in SaleRequests, id \in CatalogIds :
    /\ a # b /\ C8_First(a, id) /\ C8_Second(b, a, id)
    /\ InitialStock(id) - req[a].items[1].quantity > 0

\* C9: a sale request that fails in its stock loop, because updateStock found
\* less stock than the quantity, ends with the InsufficientStock outcome.
C9_CommitFailureIsTyped ==
  \A r \in SaleRequests :
    hist[r].failedIn = "commit" => req[r].result.kind = "InsufficientStock"

\* C10: updateStock with a negative change is an atomic check-and-reserve:
\* between a call's read and its write the stored variants of the product are
\* those it read, so the write decreases the stored stock by the magnitude.
C10_AtomicCheckAndReserve ==
  /\ \A u \in StockRequests :
       (stk[u].pc = "write" /\ stk[u].stockChange < 0) =>
         [products[stk[u].id].variants EXCEPT ![1].stock = @ + stk[u].stockChange] = stk[u].wr
  /\ \A r \in SaleRequests :
       req[r].pc = "reserveWrite" =>
         LET item == req[r].items[req[r].i] IN
         [products[item.productId].variants EXCEPT ![1].stock = @ - item.quantity] = req[r].wr

\* ----------------------------------------------- ProductController.createProduct
\* Bodies of POST /products, as far as the variants are concerned: without
\* variants, or with one.
CreateProductDtos ==
  [purchasedPrice : {2}, sellingPrice : {5},
   variants : {<< >>, << [id |-> "v1", purchasedPrice |-> 2, sellingPrice |-> 5,
                          stock |-> 1] >>}]

\* The variants the controller hands to productService.create.
createProduct_variants(dto) ==
  IF Len(dto.variants) = 0
    THEN << [id |-> "default", purchasedPrice |-> dto.purchasedPrice,
             sellingPrice |-> dto.sellingPrice, stock |-> 0] >>
    ELSE dto.variants

\* C11: a product created without variants is stored with exactly one variant,
\* "default" with stock 0; once a sale request or a stock request that works on
\* a product stored without variants has finished, the stored product has that
\* single default variant; and normalizing a product that has a variant
\* changes nothing, so normalizing twice equals normalizing once.
C11_Worked(id) ==
  \/ \E r \in SaleRequests :
       /\ req[r].pc = "done"
       /\ \E j \in 1..Len(req[r].items) :
            req[r].items[j].productId = id /\ req[r].items[j].quantity > 0
  \/ \E u \in StockRequests : stk[u].pc = "done" /\ stk[u].id = id

C11_NormalizationPersisted ==
  /\ \A dto \in CreateProductDtos :
       dto.variants = << >> =>
         /\ Len(createProduct_variants(dto)) = 1
         /\ createProduct_variants(dto)[1].id = "default"
         /\ createProduct_variants(dto)[1].stock = 0
  /\ \A id \in DOMAIN products :
       (InitProducts[id].variants = << >> /\ C11_Worked(id)) =>
         /\ Len(products[id].variants) = 1
         /\ products[id].variants[1].id = "default"
  /\ \A id \in DOMAIN products :
       /\ products[id].variants # << >> =>
            NormalizedVariants(products[id]) = products[id].variants
       /\ NormalizedVariants([products[id] EXCEPT !.variants = NormalizedVariants(products[id])])
            = NormalizedVariants(products[id])

\* C12: a persisted Sale never changes: in every step every Sale of the store
\* stays in its place with the same items, prices, quantities, total and
\* createdAt, whether the step belongs to a later sale request (its stock
\* updates and its save), a price change, a deletion or a report.
C12_SaleImmutable ==
  [][/\ Len(sales') >= Len(sales)
     /\ \A k \in 1..Len(sales) : sales'[k] = sales[k]]_vars

\* A Sale was followed by a later Sale, its product was repriced and then
\* deleted, and a report is being answered.
C12_Witness ==
  /\ Len(sales) = 2
  /\ sales[1].createdAt < sales[2].createdAt
  /\ sales[1].items[1].price # sales[2].items[1].price
  /\ sales[1].items[1].productId \notin DOMAIN products
  /\ report # NoReport

\* The calendar date of an instant on the server's local clock.
LocalDate(t) == CivilDate((t + tz) \div TicksPerDay)

\* C13: the dailyStats of a monthly report for month m of year y has exactly
\* one entry for each calendar day of that month and no other entry, in
\* ascending date order, and an entry of a day on which no stored sale was
\* created shows sales = 0 and revenue = 0.
C13_MonthDense ==
  report.kind = "monthly" =>
    LET n == DaysInMonth(report.year, report.month) IN
    /\ Len(report.dailyStats) = n
    /\ \A d \in 1..n :
         LET entry == report.dailyStats[d]
             date == [y |-> report.year, m |-> report.month, d |-> d]
         IN /\ entry.date = date
            /\ (\A k \in 1..Len(sales) : LocalDate(sales[k].createdAt) # date)
                 => entry.sales = 0 /\ entry.revenue = 0

\* The products named by the line items of the stored Sales.
SoldIds ==
  UNION {{sales[k].items[j].productId : j \in 1..Len(sales[k].items)} : k \in 1..Len(sales)}

RECURSIVE LineRevenue(_, _)
LineRevenue(items, id) ==
  IF items = << >> THEN 0
  ELSE (IF Head(items).productId = id THEN Head(items).price * Head(items).quantity ELSE 0)
         + LineRevenue(Tail(items), id)

RECURSIVE Revenue(_, _)
Revenue(ss, id) ==
  IF ss = << >> THEN 0 ELSE LineRevenue(Head(ss).items, id) + Revenue(Tail(ss), id)

\* The entries of a product report for product id.
EntriesOf(id) == {k \in 1..Len(report.list) : report.list[k].productId = id}

\* C14: the product report has, for every product named by a line item of a
\* stored Sale, exactly one entry, whose totalQuantitySold is the sum of the
\* quantities and whose totalRevenue is the sum of price * quantity over all
\* line items of all Sales that name the product, also when the product has
\* been deleted from the catalog since.
C14_EveryLineFolded ==
  report.kind = "products" =>
    \A id \in SoldIds :
      /\ Cardinality(EntriesOf(id)) = 1
      /\ \A k \in EntriesOf(id) :
           /\ report.list[k].totalQuantitySold = Sold(sales, id)
           /\ report.list[k].totalRevenue = Revenue(sales, id)

\* The product ids in the order in which a scan of the Sales meets them.
RECURSIVE ScanIds(_)
ScanIds(ss) ==
  IF ss = << >> THEN << >>
  ELSE [j \in 1..Len(Head(ss).items) |-> Head(ss).items[j].productId] \o ScanIds(Tail(ss))

FirstSeen(id) ==
  CHOOSE k \in 1..Len(ScanIds(sales)) :
    /\ ScanIds(sales)[k] = id
    /\ \A j \in 1..(k - 1) : ScanIds(sales)[j] # id

\* C15: the product report is ordered by totalRevenue descending, and entries
\* with equal totalRevenue keep the order in which their products were first
\* met in the scan of the Sales.
C15_OrderedByRevenue ==
  report.kind = "products" =>
    \A j, k \in 1..Len(report.list) :
      j < k =>
        /\ report.list[j].totalRevenue >= report.list[k].totalRevenue
        /\ report.list[j].totalRevenue = report.list[k].totalRevenue
             => FirstSeen(report.list[j].productId) < FirstSeen(report.list[k].productId)

\* A report of two products with equal revenue, the one met first in the scan
\* being p2.
C15_Witness ==
  /\ report.kind = "products"
  /\ Len(report.list) = 2
  /\ report.list[1].totalRevenue = report.list[2].totalRevenue
  /\ report.list[1].productId = "p2"

\* The stored Sales created on local calendar date d, from 00:00:00.000 to
\* 23:59:59.999, both included.
SalesOfLocalDay(d) ==
  SelectSeq(sales, LAMBDA sale : LocalDate(sale.createdAt) = d)

\* C16: a daily report for date d aggregates exactly the stored Sales created
\* on local calendar date d: totalSales is their count, totalRevenue the sum
\* of their totals, averageOrderValue is totalRevenue / totalSales, or 0 when
\* there is none.
C16_DailyWindow ==
  report.kind = "daily" =>
    LET wanted == SalesOfLocalDay(report.date) IN
    /\ report.totalSales = Len(wanted)
    /\ report.totalRevenue = TotalRevenue(wanted)
    /\ IF Len(wanted) = 0
         THEN report.averageOrderValue.num = 0
         ELSE report.averageOrderValue.num * Len(wanted)
                = TotalRevenue(wanted) * report.averageOrderValue.den

RECURSIVE SumSales(_)
SumSales(stats) ==
  IF stats = << >> THEN 0 ELSE Head(stats).sales + SumSales(Tail(stats))

RECURSIVE SumRevenue(_)
SumRevenue(stats) ==
  IF stats = << >> THEN 0 ELSE Head(stats).revenue + SumRevenue(Tail(stats))

\* C17: in a monthly report the per-day buckets account for every Sale of the
\* month exactly once: the sales of the buckets add up to totalSales and their
\* revenues to totalRevenue.
C17_BucketsAddUp ==
  report.kind = "monthly" =>
    /\ SumSales(report.dailyStats) = report.totalSales
    /\ SumRevenue(report.dailyStats) = report.totalRevenue

\* A monthly report over two Sales in two buckets, one of them a bucket that
\* the day loop had not prepared.
C17_Witness ==
  /\ report.kind = "monthly"
  /\ report.totalSales = 2
  /\ Len(report.dailyStats) > DaysInMonth(report.year, report.month)
  /\ \E j, k \in 1..Len(report.dailyStats) :
       j # k /\ report.dailyStats[j].sales = 1 /\ report.dailyStats[k].sales = 1

\* The stored Sales of the window of an analytics request: from the start of
\* the day RecentDays days before today to the end of today.
RecentWindow ==
  {k \in 1..Len(sales) :
     /\ DayStart(IsoDate(report.today - RecentDays * TicksPerDay)) <= sales[k].createdAt
     /\ sales[k].createdAt <= DayEnd(IsoDate(report.today))}

Shown == {k \in RecentWindow :
            \E j \in 1..Len(report.recentSales) : report.recentSales[j] = Populated(sales[k])}

\* C18: recentSales of an analytics response are the RecentLimit most recently
\* created Sales of the window (all of them when there are fewer), newest
\* first: no Sale of the window that is missing from recentSales is newer than
\* a Sale contained in it.
C18_MostRecentSales ==
  report.kind = "analytics" =>
    /\ Len(report.recentSales) =
         (IF Cardinality(RecentWindow) < RecentLimit THEN Cardinality(RecentWindow)
                                                     ELSE RecentLimit)
    /\ Cardinality(Shown) = Len(report.recentSales)
    /\ \A j, k \in 1..Len(report.recentSales) :
         j < k => report.recentSales[j].createdAt >= report.recentSales[k].createdAt
    /\ \A missing \in RecentWindow \ Shown, k \in Shown :
         sales[missing].createdAt <= sales[k].createdAt
====
